---------------------------- MODULE Spec2Model ----------------------------
(***************************************************************************)
(* LinkUp: calendar normalisation (src/lib/calendar/parse-ics.ts) and the  *)
(* group availability query (src/app/api/groups/[groupId]/leave/route.ts). *)
(*                                                                         *)
(* Conventions of the model                                                *)
(*  - A JavaScript string is a sequence of one-character strings, so that  *)
(*    split, Number, the time regular expression and the label formatting  *)
(*    are computed character by character.                                 *)
(*  - A value on the minute-of-day scale is held as an integer number of   *)
(*    sixtieths of a minute: the code's h*60 + m + s/60 is                 *)
(*    (h*60 + m)*PerMinute + s here.  All clock inputs of the model have   *)
(*    seconds below 60, where the floating point sums of the code are      *)
(*    ordered exactly as these integers.                                   *)
(*  - A Date is the number of seconds since a Monday 00:00:00 of the civil *)
(*    time zone (America/Chicago); Intl's zone conversion is outside the   *)
(*    model.                                                               *)
(***************************************************************************)
EXTENDS Integers, Sequences, FiniteSets, TLC

VARIABLES
    blocks,               \* SpecMerge: the argument of mergeBusyIntervals
    mergedByUser,         \* SpecMerge: its result
    timeValue,            \* SpecTime: the argument of parseTimeParam
    parsedTime,           \* SpecTime: its result
    parsed,               \* SpecIcs: the events node-ical hands to the normaliser
    icsBlocks,            \* SpecIcs: the result of parseIcsToBusyBlocks
    hourCycle,            \* how the platform's Intl renders the midnight hour
    weekday_busy_blocks,  \* table weekday_busy_blocks, in storage order
    calendar_uploads,     \* table calendar_uploads: the user ids that have a row
    group_members,        \* table group_members: the user ids, in storage order
    request,              \* the GET request in hand
    pc,                   \* the await the GET handler is suspended at
    locals,               \* the GET handler's local variables so far
    response,             \* the GET response
    post,                 \* the POST request in hand and the await it is at
    postResponse          \* the POST response

vars == <<blocks, mergedByUser, timeValue, parsedTime, parsed, icsBlocks,
          hourCycle, weekday_busy_blocks, calendar_uploads, group_members,
          request, pc, locals, response, post, postResponse>>

---------------------------------------------------------------------------
(* Strings *)

Digits == {"0", "1", "2", "3", "4", "5", "6", "7", "8", "9"}

DigitValue == [c \in Digits |->
    CASE c = "0" -> 0 [] c = "1" -> 1 [] c = "2" -> 2 [] c = "3" -> 3
      [] c = "4" -> 4 [] c = "5" -> 5 [] c = "6" -> 6 [] c = "7" -> 7
      [] c = "8" -> 8 [] c = "9" -> 9]

DigitChar == [d \in 0..9 |->
    CASE d = 0 -> "0" [] d = 1 -> "1" [] d = 2 -> "2" [] d = 3 -> "3"
      [] d = 4 -> "4" [] d = 5 -> "5" [] d = 6 -> "6" [] d = 7 -> "7"
      [] d = 8 -> "8" [] d = 9 -> "9"]

\* JavaScript's null / undefined where a string is expected.
Null == <<"null">>

\* JavaScript's NaN, and the undefined of a number or Date.
NaN == 0 - 1
Undefined == 0 - 1

isFinite(n) == n >= 0

RECURSIVE DecimalValue(_)
DecimalValue(s) ==
    IF s = <<>> THEN 0
    ELSE DecimalValue(SubSeq(s, 1, Len(s) - 1)) * 10 + DigitValue[s[Len(s)]]

\* Number(s) for a string of the model's alphabet (digits, ":" and the letter
\* "a"): the empty string is 0, a run of digits its decimal value, anything
\* else NaN; Number(undefined) is NaN.
Number(s) ==
    IF s = Null THEN NaN
    ELSE IF \A i \in 1..Len(s) : s[i] \in Digits THEN DecimalValue(s)
    ELSE NaN

RECURSIVE toString(_)
toString(n) ==
    IF n < 10 THEN <<DigitChar[n]>>
    ELSE toString(n \div 10) \o <<DigitChar[n % 10]>>

padStart2(s) == IF Len(s) < 2 THEN <<"0">> \o s ELSE s

\* s.split(":")
RECURSIVE split(_)
split(s) ==
    IF \A i \in 1..Len(s) : s[i] # ":" THEN <<s>>
    ELSE LET k == CHOOSE i \in 1..Len(s) :
                      s[i] = ":" /\ \A j \in 1..(i - 1) : s[j] # ":"
         IN  <<SubSeq(s, 1, k - 1)>> \o split(SubSeq(s, k + 1, Len(s)))

\* parts[i] of a destructuring: undefined past the end.
part(parts, i) == IF i <= Len(parts) THEN parts[i] ELSE Null

---------------------------------------------------------------------------
(* route.ts: the time codec *)

PerMinute == 60

timeToMinutes(t) ==
    LET parts == split(t)
        hours == Number(part(parts, 1))
        minutes == Number(part(parts, 2))
        seconds == Number(part(parts, 3))
        safeHours == IF isFinite(hours) THEN hours ELSE 0
        safeMinutes == IF isFinite(minutes) THEN minutes ELSE 0
        safeSeconds == IF isFinite(seconds) THEN seconds ELSE 0
    IN  (safeHours * 60 + safeMinutes) * PerMinute + safeSeconds

formatTime(t) ==
    LET parts == split(t)
        hours == Number(part(parts, 1))
        minutes == Number(part(parts, 2))
        safeHours == IF isFinite(hours) THEN hours ELSE 0
        safeMinutes == IF isFinite(minutes) THEN minutes ELSE 0
        period == IF safeHours >= 12 THEN <<"P", "M">> ELSE <<"A", "M">>
        displayHours == ((safeHours + 11) % 12) + 1
    IN  toString(displayHours) \o <<":">> \o padStart2(toString(safeMinutes))
          \o period

---------------------------------------------------------------------------
(* route.ts: mergeBusyIntervals *)

\* The BusyInterval pushed for a block (lines 142-147).
toInterval(block) ==
    [startMinutes |-> timeToMinutes(block.start_time),
     endMinutes   |-> timeToMinutes(block.end_time),
     start_time   |-> block.start_time,
     end_time     |-> block.end_time]

\* A block reaches `grouped` unless one of the two `continue`s skips it.
keepsBlock(block) ==
    LET startMinutes == timeToMinutes(block.start_time)
        endMinutes == timeToMinutes(block.end_time)
    IN  /\ isFinite(startMinutes) /\ isFinite(endMinutes)
        /\ ~(endMinutes <= startMinutes)

\* grouped.get(userId) after the first loop.
RECURSIVE grouped(_, _)
grouped(bs, userId) ==
    IF bs = <<>> THEN <<>>
    ELSE LET rest == grouped(SubSeq(bs, 1, Len(bs) - 1), userId)
             block == bs[Len(bs)]
         IN  IF block.user_id = userId /\ keepsBlock(block)
             THEN Append(rest, toInterval(block))
             ELSE rest

\* The comparator of intervals.sort.
compare(a, b) ==
    IF a.startMinutes # b.startMinutes
    THEN a.startMinutes - b.startMinutes
    ELSE a.endMinutes - b.endMinutes

\* Array.prototype.sort is stable: an element goes after every element that
\* does not compare greater.
insertSorted(sorted, x) ==
    LET k == Cardinality({i \in 1..Len(sorted) : compare(sorted[i], x) <= 0})
    IN  SubSeq(sorted, 1, k) \o <<x>> \o SubSeq(sorted, k + 1, Len(sorted))

RECURSIVE sort(_)
sort(s) ==
    IF s = <<>> THEN <<>>
    ELSE insertSorted(sort(SubSeq(s, 1, Len(s) - 1)), s[Len(s)])

\* Variant of touches that joins overlapping blocks only.
touchesOnlyWhenOverlapping(interval, last) ==
    interval.startMinutes < last.endMinutes

\* Line 170: the next interval overlaps the running one or is back to back.
touches(interval, last) == interval.startMinutes <= last.endMinutes

\* Variant of extend that moves the end and leaves its label behind.
extendKeepingLabel(last, interval) ==
    [last EXCEPT !.endMinutes = interval.endMinutes]

\* Lines 171-174: the running interval takes the later end and its label.
extend(last, interval) ==
    [last EXCEPT !.endMinutes = interval.endMinutes,
                 !.end_time = interval.end_time]

\* One turn of the sweep loop (lines 161-179).
sweepStep(merged, interval) ==
    IF merged = <<>> THEN <<interval>>
    ELSE LET last == merged[Len(merged)]
         IN  IF touches(interval, last)
             THEN IF interval.endMinutes > last.endMinutes
                  THEN [merged EXCEPT ![Len(merged)] = extend(last, interval)]
                  ELSE merged
             ELSE Append(merged, interval)

RECURSIVE sweep(_)
sweep(intervals) ==
    IF intervals = <<>> THEN <<>>
    ELSE sweepStep(sweep(SubSeq(intervals, 1, Len(intervals) - 1)),
                   intervals[Len(intervals)])

\* The Map returned: one entry per user with a kept block.
mergeBusyIntervals(bs) ==
    [userId \in {bs[i].user_id : i \in {j \in 1..Len(bs) : keepsBlock(bs[j])}}
        |-> sweep(sort(grouped(bs, userId)))]

---------------------------------------------------------------------------
(* Inputs shared by the specifications *)

\* "HH:MM:SS" and "HH:MM" for given numbers.
Clock(h, m, s) ==
    padStart2(toString(h)) \o <<":">> \o padStart2(toString(m)) \o <<":">>
      \o padStart2(toString(s))

ClockHM(h, m) == padStart2(toString(h)) \o <<":">> \o padStart2(toString(m))

RECURSIVE SeqsUpTo(_, _)
SeqsUpTo(S, n) ==
    IF n = 0 THEN {<<>>}
    ELSE LET shorter == SeqsUpTo(S, n - 1)
         IN  shorter \cup {Append(q, x) : q \in {r \in shorter : Len(r) = n - 1},
                                            x \in S}

\* The value of a result variable before the call.
NotCalled == [called |-> FALSE]

Returned(v) == [called |-> TRUE, value |-> v]

\* The variables a specification does not use.
IdleMerge == blocks = <<>> /\ mergedByUser = NotCalled
IdleTime == timeValue = Null /\ parsedTime = NotCalled
IdleIcs == parsed = <<>> /\ icsBlocks = NotCalled
\* The handler's local variables before any of them is assigned.
NoLocals ==
    [members |-> <<>>, uploadedSet |-> {}, now |-> Undefined,
     weekday |-> Undefined, referenceMinutes |-> Undefined,
     blocksRead |-> FALSE]

NoPost == [pc |-> "idle", sub |-> ""]

IdleGET ==
    request = NotCalled /\ pc = "idle" /\ locals = NoLocals
      /\ response = NotCalled

IdlePOST == post = NoPost /\ postResponse = NotCalled

IdleQuery ==
    /\ weekday_busy_blocks = <<>> /\ calendar_uploads = {}
    /\ group_members = <<>>
    /\ IdleGET /\ IdlePOST

mergeVars == <<blocks, mergedByUser>>
timeVars == <<timeValue, parsedTime>>
icsVars == <<parsed, icsBlocks>>
tableVars == <<weekday_busy_blocks, calendar_uploads>>
getVars == <<request, pc, locals, response>>
postVars == <<post, postResponse>>
queryVars == <<tableVars, group_members, getVars, postVars>>

---------------------------------------------------------------------------
(* SpecMerge: mergeBusyIntervals applied to a list of busy blocks *)

MaxBlocks == 3

\* Clock strings of the rows: a malformed one (every component 0), a full
\* one, one with seconds, and a short "HH:MM".
MergeClocks == {<<"a">>, Clock(9, 0, 0), Clock(10, 30, 30), ClockHM(13, 0)}

BlockRows ==
    [user_id : {"u1"}, start_time : MergeClocks, end_time : MergeClocks]
      \cup [user_id : {"u2"}, start_time : {Clock(9, 0, 0), ClockHM(13, 0)},
           end_time : {Clock(10, 30, 30)}]

InitMerge ==
    /\ blocks \in SeqsUpTo(BlockRows, MaxBlocks)
    /\ mergedByUser = NotCalled
    /\ IdleTime /\ IdleIcs /\ IdleQuery /\ hourCycle = "h23"

CallMerge ==
    /\ mergedByUser' = Returned(mergeBusyIntervals(blocks))
    /\ UNCHANGED <<blocks, timeVars, icsVars, queryVars, hourCycle>>

SpecMerge == InitMerge /\ [][CallMerge]_vars

Users == {"u1", "u2"}

\* C1: after mergeBusyIntervals, for every user, every merged interval has
\* endMinutes > startMinutes, and each interval starts strictly after the
\* end of the one before it (sorted, disjoint, not back to back).
MergedSortedNonAdjacent ==
    mergedByUser.called =>
        \A u \in DOMAIN mergedByUser.value :
            LET m == mergedByUser.value[u]
            IN  /\ \A i \in 1..Len(m) : m[i].endMinutes > m[i].startMinutes
                /\ \A i \in 1..(Len(m) - 1) :
                        m[i + 1].startMinutes > m[i].endMinutes

\* Three kept blocks of one user, two of them joined, leave two intervals.
MergedTwoOfThree ==
    /\ mergedByUser.called
    /\ \E u \in DOMAIN mergedByUser.value :
           /\ Len(grouped(blocks, u)) = 3
           /\ Len(mergedByUser.value[u]) = 2
    /\ \E i \in 1..Len(blocks) : ~keepsBlock(blocks[i]) \/ Len(blocks) = 3

\* Whether minute m lies in a block of the argument that has end > start.
InputCovers(u, m) ==
    \E i \in 1..Len(blocks) :
        /\ blocks[i].user_id = u
        /\ timeToMinutes(blocks[i].end_time) > timeToMinutes(blocks[i].start_time)
        /\ timeToMinutes(blocks[i].start_time) <= m
        /\ m < timeToMinutes(blocks[i].end_time)

MergedCovers(u, m) ==
    /\ u \in DOMAIN mergedByUser.value
    /\ \E i \in 1..Len(mergedByUser.value[u]) :
           /\ mergedByUser.value[u][i].startMinutes <= m
           /\ m < mergedByUser.value[u][i].endMinutes

\* Both coverages are unions of half-open intervals and change only at an
\* end point, so they agree everywhere once they agree at every end point
\* and next to it.
MergedEndPoints(u) ==
    UNION {{mergedByUser.value[u][i].startMinutes,
            mergedByUser.value[u][i].endMinutes} :
               i \in 1..Len(mergedByUser.value[u])}

EndPoints ==
    {timeToMinutes(blocks[i].start_time) : i \in 1..Len(blocks)}
      \cup {timeToMinutes(blocks[i].end_time) : i \in 1..Len(blocks)}
      \cup UNION {MergedEndPoints(u) : u \in DOMAIN mergedByUser.value}

CheckPoints ==
    {m \in UNION {{e - 1, e, e + 1} : e \in EndPoints} \cup {0} : m >= 0}

\* C10: mergeBusyIntervals preserves coverage: a minute lies in a merged
\* interval of a user exactly when it lies in an input block of that user
\* with end > start; and the start_time / end_time labels of every merged
\* interval convert to its startMinutes / endMinutes.
MergePreservesCoverage ==
    mergedByUser.called =>
        /\ \A u \in Users : \A m \in CheckPoints :
               MergedCovers(u, m) <=> InputCovers(u, m)
        /\ \A u \in DOMAIN mergedByUser.value :
               \A i \in 1..Len(mergedByUser.value[u]) :
                   LET v == mergedByUser.value[u][i]
                   IN  /\ timeToMinutes(v.start_time) = v.startMinutes
                       /\ timeToMinutes(v.end_time) = v.endMinutes

\* A merged interval that is no single block of the argument: its end was
\* moved to a later block's end.
MergedAnExtendedInterval ==
    /\ mergedByUser.called
    /\ \E u \in DOMAIN mergedByUser.value :
           \E i \in 1..Len(mergedByUser.value[u]) :
               \A j \in 1..Len(blocks) :
                   toInterval(blocks[j]) # mergedByUser.value[u][i]

---------------------------------------------------------------------------
(* route.ts: parseTimeParam *)

\* The groups of /^([01]?\d|2[0-3]):([0-5]\d)(?::([0-5]\d))?$/.
hourMatches(h) ==
    \/ Len(h) = 1 /\ h[1] \in Digits
    \/ Len(h) = 2 /\ h[1] \in {"0", "1"} /\ h[2] \in Digits
    \/ Len(h) = 2 /\ h[1] = "2" /\ h[2] \in {"0", "1", "2", "3"}

sixtyMatches(m) ==
    Len(m) = 2 /\ m[1] \in {"0", "1", "2", "3", "4", "5"} /\ m[2] \in Digits

\* The lengths the hour group can take in a match of the whole string.
hourLengths(s) ==
    {hl \in {1, 2} :
        /\ Len(s) \in {hl + 3, hl + 6}
        /\ hourMatches(SubSeq(s, 1, hl))
        /\ s[hl + 1] = ":"
        /\ sixtyMatches(SubSeq(s, hl + 2, hl + 3))
        /\ Len(s) = hl + 6 =>
               s[hl + 4] = ":" /\ sixtyMatches(SubSeq(s, hl + 5, hl + 6))}

NoMatch == <<>>

\* timeValue.match(...): <<match[1], match[2], match[3]>>, or NoMatch.
match(s) ==
    IF hourLengths(s) = {} THEN NoMatch
    ELSE LET hl == CHOOSE n \in hourLengths(s) : TRUE
         IN  <<SubSeq(s, 1, hl), SubSeq(s, hl + 2, hl + 3),
               IF Len(s) = hl + 6 THEN SubSeq(s, hl + 5, hl + 6) ELSE Null>>

NoTime == [ok |-> FALSE]

\* Line 188: !timeValue holds of null and of the empty string.
isFalsy(s) == s = Null \/ s = <<>>

parseTimeParam(s) ==
    IF isFalsy(s) THEN NoTime
    ELSE IF match(s) = NoMatch THEN NoTime
    ELSE LET m == match(s)
             normalized == m[1] \o <<":">> \o m[2] \o <<":">>
                             \o (IF m[3] = Null THEN <<"0", "0">> ELSE m[3])
         IN  [ok |-> TRUE,
              minutes |-> timeToMinutes(normalized),
              label |-> formatTime(normalized)]

---------------------------------------------------------------------------
(* SpecTime: parseTimeParam applied to a string *)

MaxLen == 4

Alphabet == {"0", "1", "2", "5", "9", ":", "a"}

\* Hours, minutes and seconds of the clock strings tried, in and out of range.
HourValues == {0, 1, 9, 11, 12, 13, 23, 24, 25}
MinuteValues == {0, 5, 30, 59, 60}
SecondValues == {0, 30, 59, 60}

\* h:mm and h:mm:ss with the hour as written by toString or padded to two.
ClockStrings(h, m) ==
    {toString(h) \o <<":">> \o padStart2(toString(m)), ClockHM(h, m)}
      \cup {toString(h) \o <<":">> \o padStart2(toString(m)) \o <<":">>
              \o padStart2(toString(sec)) : sec \in SecondValues}
      \cup {Clock(h, m, sec) : sec \in SecondValues}

TimeValues ==
    {Null} \cup SeqsUpTo(Alphabet, MaxLen)
      \cup UNION {ClockStrings(h, m) : h \in HourValues, m \in MinuteValues}

InitTime ==
    /\ timeValue \in TimeValues
    /\ parsedTime = NotCalled
    /\ IdleMerge /\ IdleIcs /\ IdleQuery /\ hourCycle = "h23"

CallParseTimeParam ==
    /\ parsedTime' = Returned(parseTimeParam(timeValue))
    /\ UNCHANGED <<timeValue, mergeVars, icsVars, queryVars, hourCycle>>

SpecTime == InitTime /\ [][CallParseTimeParam]_vars

\* The label the specification gives clock h:mm: 12-hour hour without a
\* leading zero, two-digit minutes, lowercase am/pm, 0 as 12am, 12 as 12pm.
LowercaseLabel(h, m) ==
    toString(IF h % 12 = 0 THEN 12 ELSE h % 12) \o <<":">>
      \o padStart2(toString(m))
      \o (IF h < 12 THEN <<"a", "m">> ELSE <<"p", "m">>)

UppercaseLabel(h, m) ==
    toString(IF h % 12 = 0 THEN 12 ELSE h % 12) \o <<":">>
      \o padStart2(toString(m))
      \o (IF h < 12 THEN <<"A", "M">> ELSE <<"P", "M">>)

\* The numbers of the accepted clock string in timeValue, when it is one of
\* the clock strings tried.
AcceptedClocks ==
    {c \in [h : HourValues, m : MinuteValues, s : SecondValues \cup {Undefined}] :
        /\ c.h <= 23 /\ c.m <= 59 /\ c.s <= 59
        /\ timeValue \in
              IF c.s = Undefined
              THEN {toString(c.h) \o <<":">> \o padStart2(toString(c.m)),
                    ClockHM(c.h, c.m)}
              ELSE {toString(c.h) \o <<":">> \o padStart2(toString(c.m))
                      \o <<":">> \o padStart2(toString(c.s)),
                    Clock(c.h, c.m, c.s)}}

\* C9: for every accepted clock string h:mm[:ss], parseClockParam returns
\* minutes = h*60 + mm (+ ss/60) and the label "H:MMam/pm" with a lowercase
\* suffix ("9:05" gives 545 and "9:05am").
ParsedLabelIsLowercase ==
    parsedTime.called =>
        \A c \in AcceptedClocks :
            /\ parsedTime.value.ok
            /\ parsedTime.value.minutes
                  = (c.h * 60 + c.m) * PerMinute
                      + (IF c.s = Undefined THEN 0 ELSE c.s)
            /\ parsedTime.value.label = LowercaseLabel(c.h, c.m)

\* What the code returns instead: the same value with the suffix in capitals.
ParsedLabelIsUppercase ==
    parsedTime.called =>
        \A c \in AcceptedClocks :
            /\ parsedTime.value.ok
            /\ parsedTime.value.minutes
                  = (c.h * 60 + c.m) * PerMinute
                      + (IF c.s = Undefined THEN 0 ELSE c.s)
            /\ parsedTime.value.label = UppercaseLabel(c.h, c.m)

---------------------------------------------------------------------------
(* parse-ics.ts *)

WEEKDAY_MIN == 1
WEEKDAY_MAX == 5

WEEKDAY_LOOKUP ==
    [Mon |-> 1, Tue |-> 2, Wed |-> 3, Thu |-> 4, Fri |-> 5, Sat |-> 6, Sun |-> 7]

SecondsPerDay == 86400

\* The civil fields Intl gives for a Date.
weekdayLabelOf(value) ==
    <<"Mon", "Tue", "Wed", "Thu", "Fri", "Sat", "Sun">>
        [((value \div SecondsPerDay) % 7) + 1]

hourOf(value) == (value % SecondsPerDay) \div 3600

minuteOf(value) == (value % 3600) \div 60

\* The "hour" part of a formatter with hour: "2-digit", hour12: false.  The
\* hour cycle that option selects for en-US depends on the platform's Intl:
\* h23 writes midnight as "00", h24 writes it as "24".
hourPart(value) ==
    IF hourOf(value) = 0 /\ hourCycle = "h24" THEN <<"2", "4">>
    ELSE padStart2(toString(hourOf(value)))

minutePart(value) == padStart2(toString(minuteOf(value)))

\* formatTime of parse-ics.ts.
icsFormatTime(value) ==
    hourPart(value) \o <<":">> \o minutePart(value) \o <<":", "0", "0">>

getWeekdayInZone(value) == WEEKDAY_LOOKUP[weekdayLabelOf(value)]

\* event.rrule?.options?.byweekday: undefined, a number, an object with an
\* optional weekday, or an array of numbers and objects.
NoByweekday == [kind |-> "undefined"]
AsNumber(n) == [kind |-> "number", value |-> n]
AsObject(n) == [kind |-> "object", weekday |-> n]
AsArray(items) == [kind |-> "array", items |-> items]

\* Variant of toEngineWeekday that keeps the rule's 0-based code.
toEngineWeekdayUnshifted(code) == code

\* Line 68: the rule's 0-based Monday-origin code on the 1-based scale.
toEngineWeekday(code) == code + 1

\* Lines 63-70 over the entries, as Array.from(Set) lists them: in order of
\* first insertion, without repeats.
RECURSIVE normalizedWeekdays(_)
normalizedWeekdays(entries) ==
    IF entries = <<>> THEN <<>>
    ELSE LET before == normalizedWeekdays(SubSeq(entries, 1, Len(entries) - 1))
             entry == entries[Len(entries)]
             weekday == IF entry.kind = "number" THEN entry.value
                        ELSE entry.weekday
         IN  IF weekday = Undefined THEN before
             ELSE IF \E i \in 1..Len(before) : before[i] = toEngineWeekday(weekday)
             THEN before
             ELSE Append(before, toEngineWeekday(weekday))

extractWeekdays(event) ==
    LET byweekday == event.byweekday
        weekdays == IF byweekday.kind = "array" THEN byweekday.items
                    ELSE <<byweekday>>
        normalized == IF byweekday.kind = "undefined" THEN <<>>
                      ELSE normalizedWeekdays(weekdays)
    IN  IF normalized # <<>> THEN normalized
        ELSE IF event.start # Undefined THEN <<getWeekdayInZone(event.start)>>
        ELSE <<>>

\* Lines 92-106: the event is skipped before its weekdays are looked at.
skipsEntry(entry) ==
    \/ entry.type # "VEVENT"
    \/ entry.start = Undefined \/ entry.end = Undefined
    \/ entry.datetype = "date"
    \/ entry.end <= entry.start

\* Lines 116-126: one block per extracted weekday within Mon..Fri.
RECURSIVE blocksFor(_, _, _)
blocksFor(weekdays, startTime, endTime) ==
    IF weekdays = <<>> THEN <<>>
    ELSE LET before == blocksFor(SubSeq(weekdays, 1, Len(weekdays) - 1),
                                 startTime, endTime)
             weekday == weekdays[Len(weekdays)]
         IN  IF weekday < WEEKDAY_MIN \/ weekday > WEEKDAY_MAX THEN before
             ELSE Append(before, [weekday |-> weekday,
                                  start_time |-> startTime,
                                  end_time |-> endTime])

RECURSIVE parseIcsToBusyBlocks(_)
parseIcsToBusyBlocks(entries) ==
    IF entries = <<>> THEN <<>>
    ELSE LET before == parseIcsToBusyBlocks(SubSeq(entries, 1, Len(entries) - 1))
             entry == entries[Len(entries)]
         IN  IF skipsEntry(entry) THEN before
             ELSE IF extractWeekdays(entry) = <<>> THEN before
             ELSE before \o blocksFor(extractWeekdays(entry),
                                      icsFormatTime(entry.start),
                                      icsFormatTime(entry.end))

---------------------------------------------------------------------------
(* SpecIcs: parseIcsToBusyBlocks applied to parsed events *)

MaxEvents == 2

At(day, h, m, sec) == (day - 1) * SecondsPerDay + h * 3600 + m * 60 + sec

\* Start and end of the events tried: an ordinary hour, both in one clock
\* minute, inverted, empty, across midnight into Saturday, and early on
\* Saturday (the midnight hour).
Windows ==
    {<<At(1, 9, 0, 0), At(1, 10, 15, 0)>>,
     <<At(1, 9, 0, 0), At(1, 9, 0, 30)>>,
     <<At(1, 10, 15, 0), At(1, 9, 0, 0)>>,
     <<At(1, 9, 0, 0), At(1, 9, 0, 0)>>,
     <<At(5, 23, 30, 0), At(6, 0, 30, 0)>>,
     <<At(6, 0, 30, 0), At(6, 1, 30, 0)>>}

\* Recurrence descriptors tried: none, a number, an object, a mixed list,
\* a weekend-only list, a list whose only object has no weekday, a list
\* naming one weekday twice.
Byweekdays ==
    {NoByweekday, AsNumber(1), AsObject(3),
     AsArray(<<AsNumber(1), AsObject(3)>>),
     AsArray(<<AsNumber(5), AsNumber(6)>>),
     AsArray(<<AsObject(Undefined)>>),
     AsArray(<<AsNumber(1), AsObject(1)>>)}

Event(type, start, end, datetype, byweekday) ==
    [type |-> type, start |-> start, end |-> end, datetype |-> datetype,
     byweekday |-> byweekday]

Events ==
    {Event("VEVENT", w[1], w[2], "date-time", b) : w \in Windows, b \in Byweekdays}
      \cup {Event("VTIMEZONE", At(1, 9, 0, 0), At(1, 10, 15, 0), "date-time", AsNumber(1)),
            Event("VEVENT", Undefined, At(1, 10, 15, 0), "date-time", AsNumber(1)),
            Event("VEVENT", At(1, 9, 0, 0), Undefined, "date-time", AsNumber(1)),
            Event("VEVENT", At(1, 9, 0, 0), At(2, 9, 0, 0), "date", AsNumber(1))}

InitIcs ==
    /\ parsed \in SeqsUpTo(Events, MaxEvents)
    /\ icsBlocks = NotCalled
    /\ hourCycle \in {"h23", "h24"}
    /\ IdleMerge /\ IdleTime /\ IdleQuery

CallParseIcs ==
    /\ icsBlocks' = Returned(parseIcsToBusyBlocks(parsed))
    /\ UNCHANGED <<parsed, hourCycle, mergeVars, timeVars, queryVars>>

SpecIcs == InitIcs /\ [][CallParseIcs]_vars

\* C2: every busy block the normaliser emits has end_time > start_time as
\* clock-of-day values.
EmittedBlocksEndAfterStart ==
    icsBlocks.called =>
        \A i \in 1..Len(icsBlocks.value) :
            timeToMinutes(icsBlocks.value[i].end_time)
              > timeToMinutes(icsBlocks.value[i].start_time)

\* The weekdays the claim gives an event: the rule's codes plus one when
\* there is one, else the civil weekday of the start; then Mon..Fri only.
RuleCodes(event) ==
    LET b == event.byweekday
        entries == IF b.kind = "array" THEN {b.items[i] : i \in 1..Len(b.items)}
                   ELSE IF b.kind = "undefined" THEN {}
                   ELSE {b}
    IN  {e.value : e \in {x \in entries : x.kind = "number"}}
          \cup {e.weekday : e \in {x \in entries :
                                      x.kind = "object" /\ x.weekday # Undefined}}

ClaimedWeekdays(event) ==
    (IF RuleCodes(event) # {} THEN {c + 1 : c \in RuleCodes(event)}
     ELSE {((event.start \div SecondsPerDay) % 7) + 1}) \cap 1..5

PassesFilters(event) ==
    /\ event.type = "VEVENT"
    /\ event.start # Undefined /\ event.end # Undefined
    /\ event.datetype # "date"
    /\ event.end > event.start

\* The start and end clock strings of the events that pass and of the blocks
\* emitted.
ClockStarts ==
    {icsFormatTime(parsed[i].start) :
        i \in {j \in 1..Len(parsed) : PassesFilters(parsed[j])}}
      \cup {icsBlocks.value[i].start_time : i \in 1..Len(icsBlocks.value)}

ClockEnds ==
    {icsFormatTime(parsed[i].end) :
        i \in {j \in 1..Len(parsed) : PassesFilters(parsed[j])}}
      \cup {icsBlocks.value[i].end_time : i \in 1..Len(icsBlocks.value)}

\* C7: the blocks emitted are, event by event, one block per weekday of
\* W \cap 1..5 (W the rule's codes plus one, or without any the civil weekday
\* of the start), all with the event's start_time and end_time: every
\* (weekday, start_time, end_time) is emitted as often as there are events
\* that pass the filters, have that weekday and those times; no block has a
\* weekday outside 1..5.
EmittedWeekdaysAreRuleWeekdays ==
    icsBlocks.called =>
        /\ \A i \in 1..Len(icsBlocks.value) : icsBlocks.value[i].weekday \in 1..5
        /\ \A d \in 0..8 : \A st \in ClockStarts : \A et \in ClockEnds :
               Cardinality({i \in 1..Len(icsBlocks.value) :
                               icsBlocks.value[i] =
                                   [weekday |-> d, start_time |-> st,
                                    end_time |-> et]})
                 = Cardinality({i \in 1..Len(parsed) :
                                   /\ PassesFilters(parsed[i])
                                   /\ d \in ClaimedWeekdays(parsed[i])
                                   /\ icsFormatTime(parsed[i].start) = st
                                   /\ icsFormatTime(parsed[i].end) = et})

\* A rule naming two weekdays and a one-off event give three blocks.
EmittedThreeBlocks ==
    /\ icsBlocks.called
    /\ Len(parsed) = 2
    /\ parsed[1].byweekday.kind = "array"
    /\ parsed[2].byweekday.kind = "undefined"
    /\ Len(icsBlocks.value) = 3
    /\ {icsBlocks.value[i].weekday : i \in 1..3} = {2, 4, 1}

\* A weekend-only rule emits nothing although the start is on a Monday.
WeekendRuleEmitsNothing ==
    /\ icsBlocks.called
    /\ Len(parsed) = 1
    /\ PassesFilters(parsed[1])
    /\ RuleCodes(parsed[1]) = {5, 6}
    /\ getWeekdayInZone(parsed[1].start) = 1
    /\ icsBlocks.value = <<>>

---------------------------------------------------------------------------
(* route.ts: GET, the availability query, and POST, leaving the group *)

\* The display_name of the profile joined to each group_members row.
profiles ==
    [u \in {"u1", "u2"} |->
        IF u = "u1" THEN <<" ", "A", "n", "n", " ">> ELSE Null]

RECURSIVE trim(_)
trim(s) ==
    IF s = <<>> THEN s
    ELSE IF s[1] = " " THEN trim(SubSeq(s, 2, Len(s)))
    ELSE IF s[Len(s)] = " " THEN trim(SubSeq(s, 1, Len(s) - 1))
    ELSE s

\* Lines 383-384: the trimmed display name, or the user id.
nameOf(userId) ==
    IF profiles[userId] = Null THEN userId
    ELSE IF trim(profiles[userId]) = <<>> THEN userId
    ELSE trim(profiles[userId])

getCurrentTimeParts(now) ==
    [weekday |-> WEEKDAY_LOOKUP[weekdayLabelOf(now)],
     hours   |-> Number(hourPart(now)),
     minutes |-> Number(minutePart(now))]

\* Variant of isWeekday that takes Saturday for a weekday.
isWeekdayThroughSaturday(weekday) == weekday >= 1 /\ weekday <= 6

\* Line 313.
isWeekday(weekday) == weekday >= 1 /\ weekday <= 5

\* Lines 319-323 and 332: the rows of the weekday for the members, with the
\* selected columns.
RECURSIVE selectBusyBlocks(_, _, _)
selectBusyBlocks(rows, weekday, userIds) ==
    IF rows = <<>> THEN <<>>
    ELSE LET before == selectBusyBlocks(SubSeq(rows, 1, Len(rows) - 1),
                                        weekday, userIds)
             row == rows[Len(rows)]
         IN  IF row.weekday = weekday /\ row.user_id \in userIds
             THEN Append(before, [user_id |-> row.user_id,
                                  start_time |-> row.start_time,
                                  end_time |-> row.end_time])
             ELSE before

NoEntry == [found |-> FALSE]

\* Line 345.
startsAfter(interval, referenceMinutes) ==
    interval.startMinutes > referenceMinutes

\* Variant of isEarlier that prefers the later start.
isLater(interval, existingNext) ==
    interval.startMinutes > existingNext.startMinutes

\* Line 347.
isEarlier(interval, existingNext) ==
    interval.startMinutes < existingNext.startMinutes

\* Variant of contains that takes the end minute for busy.
containsThroughEnd(interval, referenceMinutes) ==
    /\ interval.startMinutes <= referenceMinutes
    /\ referenceMinutes <= interval.endMinutes

\* Lines 356-357.
contains(interval, referenceMinutes) ==
    /\ interval.startMinutes <= referenceMinutes
    /\ referenceMinutes < interval.endMinutes

\* nextBusyMap.get(userId) after the scan of the user's intervals.
RECURSIVE nextBusyOf(_, _)
nextBusyOf(intervals, referenceMinutes) ==
    IF intervals = <<>> THEN NoEntry
    ELSE LET existingNext == nextBusyOf(SubSeq(intervals, 1, Len(intervals) - 1),
                                        referenceMinutes)
             interval == intervals[Len(intervals)]
         IN  IF /\ startsAfter(interval, referenceMinutes)
                /\ (~existingNext.found \/ isEarlier(interval, existingNext))
             THEN [found |-> TRUE,
                   startMinutes |-> interval.startMinutes,
                   startLabel |-> formatTime(interval.start_time)]
             ELSE existingNext

\* busyMap.get(userId) after the scan of the user's intervals.
RECURSIVE busyOf(_, _)
busyOf(intervals, referenceMinutes) ==
    IF intervals = <<>> THEN NoEntry
    ELSE LET existing == busyOf(SubSeq(intervals, 1, Len(intervals) - 1),
                                referenceMinutes)
             interval == intervals[Len(intervals)]
         IN  IF /\ contains(interval, referenceMinutes)
                /\ (~existing.found \/ interval.endMinutes > existing.endMinutes)
             THEN [found |-> TRUE,
                   busy_until |-> formatTime(interval.end_time),
                   endMinutes |-> interval.endMinutes]
             ELSE existing

intervalsOf(merged, userId) ==
    IF userId \in DOMAIN merged THEN merged[userId] ELSE <<>>

\* Variant of hasUploaded that takes every member for an uploader.
hasUploadedAlways(uploadedSet, userId) == TRUE

\* Line 386.
hasUploaded(uploadedSet, userId) == userId \in uploadedSet

\* Lines 382-407: the three lists after the loop over the members.
RECURSIVE classify(_, _, _, _)
classify(members, uploadedSet, merged, referenceMinutes) ==
    IF members = <<>> THEN [free |-> <<>>, busy |-> <<>>, unknown |-> <<>>]
    ELSE LET lists == classify(SubSeq(members, 1, Len(members) - 1),
                               uploadedSet, merged, referenceMinutes)
             userId == members[Len(members)]
             busyEntry == busyOf(intervalsOf(merged, userId), referenceMinutes)
             nextBusy == nextBusyOf(intervalsOf(merged, userId), referenceMinutes)
         IN  IF ~hasUploaded(uploadedSet, userId)
             THEN [lists EXCEPT !.unknown =
                      Append(@, [user_id |-> userId,
                                 display_name |-> nameOf(userId)])]
             ELSE IF busyEntry.found
             THEN [lists EXCEPT !.busy =
                      Append(@, [user_id |-> userId,
                                 display_name |-> nameOf(userId),
                                 busy_until |-> busyEntry.busy_until])]
             ELSE [lists EXCEPT !.free =
                      Append(@, [user_id |-> userId,
                                 display_name |-> nameOf(userId),
                                 free_until |-> IF nextBusy.found
                                                THEN nextBusy.startLabel
                                                ELSE Null])]

Failure(status, error) == [status |-> status, error |-> error]

userIdsOf(members) == {members[i] : i \in 1..Len(members)}

\* Lines 335-412: the answer from what the reads returned.
answer(members, uploadedSet, busyBlocks, referenceMinutes, checkedTime) ==
    LET lists == classify(members, uploadedSet,
                          mergeBusyIntervals(busyBlocks), referenceMinutes)
    IN  [status |-> 200, free |-> lists.free, busy |-> lists.busy,
         unknown |-> lists.unknown, checked_time |-> checkedTime]

\* Line 235.
checkedTimeOf(timeParam) ==
    IF parseTimeParam(timeParam).ok THEN parseTimeParam(timeParam).label
    ELSE Null

\* Line 315.
referenceMinutesOf(timeParam, nowParts) ==
    IF parseTimeParam(timeParam).ok THEN parseTimeParam(timeParam).minutes
    ELSE (nowParts.hours * 60 + nowParts.minutes) * PerMinute

\* The row of table groups for the group: its owner.
groups == [created_by |-> "u2"]

RECURSIVE deleteMember(_, _)
\* Lines 37-42: the rows of group_members left by the delete.
deleteMember(rows, userId) ==
    IF rows = <<>> THEN <<>>
    ELSE IF rows[1] = userId THEN deleteMember(Tail(rows), userId)
    ELSE <<rows[1]>> \o deleteMember(Tail(rows), userId)

---------------------------------------------------------------------------
(* Spec: GET and POST requests over stored tables.  Each action is one     *)
(* stretch of a handler between two awaits: the read awaited, and the code *)
(* up to the next read or the return.                                      *)

MaxRows == 2

\* Rows of weekday_busy_blocks that can be stored: Monday and Tuesday rows
\* of two members, back to back and later in the day.
Row(userId, weekday, start, end) ==
    [user_id |-> userId, weekday |-> weekday, start_time |-> start,
     end_time |-> end]

StoredRows ==
    {Row("u1", 1, Clock(9, 0, 0), Clock(10, 30, 0)),
     Row("u1", 1, Clock(10, 30, 0), Clock(13, 0, 0)),
     Row("u1", 1, Clock(14, 30, 0), Clock(15, 0, 0)),
     Row("u2", 1, Clock(9, 0, 0), Clock(10, 30, 0)),
     Row("u2", 2, Clock(10, 30, 0), Clock(13, 0, 0))}

\* The time parameters tried: absent, empty, accepted ones (before, inside
\* and at the end of the stored windows) and a rejected one.
TimeParams ==
    {Null, <<>>, <<"8", ":", "0", "0">>, ClockHM(10, 0), ClockHM(13, 0),
     ClockHM(25, 0)}

\* The moments tried: Monday morning, Monday in the midnight hour, Tuesday,
\* Saturday and Sunday.
Nows ==
    {At(1, 10, 0, 0), At(1, 0, 10, 0), At(2, 11, 0, 0), At(6, 10, 0, 0),
     At(7, 10, 0, 0)}

\* GET requests: every time parameter by a member; a missing session and a
\* caller outside the group.
Requests ==
    [sub : {"u1"}, time : TimeParams]
      \cup [sub : {"", "u3"}, time : {Null}]

\* POST requests: a missing session, a member, the owner, and a caller
\* outside the group.
Callers == {"", "u1", "u2", "u3"}

Init ==
    /\ weekday_busy_blocks \in SeqsUpTo(StoredRows, MaxRows)
    /\ calendar_uploads \in {{"u1"}, {"u1", "u2"}}
    /\ group_members = <<"u1", "u2">>
    /\ hourCycle \in {"h23", "h24"}
    /\ IdleGET /\ IdlePOST
    /\ IdleMerge /\ IdleTime /\ IdleIcs

restOfGET == <<tableVars, group_members, postVars, hourCycle, mergeVars,
               timeVars, icsVars>>

restOfPOST == <<tableVars, getVars, hourCycle, mergeVars, timeVars, icsVars>>

\* Lines 224-242: the session, then the time parameter.  One GET per
\* behaviour: the handler keeps nothing between requests and writes no
\* table, so a later or a concurrent GET meets what this one can meet.
GET_claims ==
    \E r \in Requests, authError \in BOOLEAN :
        /\ pc = "idle"
        /\ request' = Returned(r)
        /\ IF authError \/ r.sub = ""
           THEN /\ response' = Returned(Failure(401, "Unauthorized"))
                /\ pc' = "done"
           ELSE IF ~isFalsy(r.time) /\ ~parseTimeParam(r.time).ok
           THEN /\ response' =
                       Returned(Failure(400, "Invalid time format. Use HH:MM."))
                /\ pc' = "done"
           ELSE /\ response' = response
                /\ pc' = "membership"
        /\ UNCHANGED <<locals, restOfGET>>

\* Lines 244-264: the caller's row of group_members.
GET_membership ==
    \E membershipError \in BOOLEAN :
        /\ pc = "membership"
        /\ IF membershipError
           THEN /\ response' =
                       Returned(Failure(500, "Failed to validate membership"))
                /\ pc' = "done"
           ELSE IF request.value.sub \notin userIdsOf(group_members)
           THEN /\ response' = Returned(Failure(403, "Forbidden"))
                /\ pc' = "done"
           ELSE /\ response' = response
                /\ pc' = "members"
        /\ UNCHANGED <<request, locals, restOfGET>>

\* Lines 266-295: the rows of group_members.
GET_members ==
    \E membersError \in BOOLEAN :
        /\ pc = "members"
        /\ IF membersError
           THEN /\ response' =
                       Returned(Failure(500, "Failed to load group members"))
                /\ pc' = "done"
                /\ locals' = locals
           ELSE /\ locals' = [locals EXCEPT !.members = group_members]
                /\ IF group_members = <<>>
                   THEN /\ response' =
                               Returned([status |-> 200, free |-> <<>>,
                                         busy |-> <<>>, unknown |-> <<>>,
                                         checked_time |->
                                             checkedTimeOf(request.value.time)])
                        /\ pc' = "done"
                   ELSE /\ response' = response
                        /\ pc' = "uploads"
        /\ UNCHANGED <<request, restOfGET>>

\* Lines 297-317, and 335-412 when the day is not a weekday: the rows of
\* calendar_uploads, then the moment and the reference minute.
GET_uploads ==
    \E uploadsError \in BOOLEAN, now \in Nows :
        /\ pc = "uploads"
        /\ IF uploadsError
           THEN /\ response' =
                       Returned(Failure(500, "Failed to load calendar status"))
                /\ pc' = "done"
                /\ locals' = locals
           ELSE LET uploadedSet == calendar_uploads \cap userIdsOf(locals.members)
                    nowParts == getCurrentTimeParts(now)
                    referenceMinutes ==
                        referenceMinutesOf(request.value.time, nowParts)
                IN  /\ locals' = [locals EXCEPT
                                     !.uploadedSet = uploadedSet,
                                     !.now = now,
                                     !.weekday = nowParts.weekday,
                                     !.referenceMinutes = referenceMinutes]
                    /\ IF isWeekday(nowParts.weekday)
                       THEN /\ response' = response
                            /\ pc' = "blocks"
                       ELSE /\ response' =
                                   Returned(answer(locals.members, uploadedSet,
                                                   <<>>, referenceMinutes,
                                                   checkedTimeOf(request.value.time)))
                            /\ pc' = "done"
        /\ UNCHANGED <<request, restOfGET>>

\* Lines 319-333 and 335-412: the rows of weekday_busy_blocks, then the
\* answer.
GET_blocks ==
    \E blocksError \in BOOLEAN :
        /\ pc = "blocks"
        /\ pc' = "done"
        /\ locals' = [locals EXCEPT !.blocksRead = TRUE]
        /\ response' =
              IF blocksError
              THEN Returned(Failure(500, "Failed to load busy blocks"))
              ELSE Returned(answer(locals.members, locals.uploadedSet,
                                   selectBusyBlocks(weekday_busy_blocks,
                                                    locals.weekday,
                                                    userIdsOf(locals.members)),
                                   locals.referenceMinutes,
                                   checkedTimeOf(request.value.time)))
        /\ UNCHANGED <<request, restOfGET>>

GET == GET_claims \/ GET_membership \/ GET_members \/ GET_uploads \/ GET_blocks

\* Lines 9-18: the session.  One POST per behaviour: the owner cannot leave
\* and no handler adds a row, so a second POST changes no table.
POST_claims ==
    \E sub \in Callers, authError \in BOOLEAN :
        /\ post.pc = "idle"
        /\ IF authError \/ sub = ""
           THEN /\ postResponse' = Returned(Failure(401, "Unauthorized"))
                /\ post' = [pc |-> "done", sub |-> sub]
           ELSE /\ postResponse' = postResponse
                /\ post' = [pc |-> "group", sub |-> sub]
        /\ UNCHANGED <<group_members, restOfPOST>>

\* Lines 20-35: the group's row of table groups.
POST_group ==
    \E groupError \in BOOLEAN :
        /\ post.pc = "group"
        /\ IF groupError
           THEN /\ postResponse' = Returned(Failure(404, "Group not found"))
                /\ post' = [post EXCEPT !.pc = "done"]
           ELSE IF groups.created_by = post.sub
           THEN /\ postResponse' =
                       Returned(Failure(400,
                                    "Group owners cannot leave their own group."))
                /\ post' = [post EXCEPT !.pc = "done"]
           ELSE /\ postResponse' = postResponse
                /\ post' = [post EXCEPT !.pc = "delete"]
        /\ UNCHANGED <<group_members, restOfPOST>>

\* Lines 37-58: the delete of the caller's row of group_members.
POST_delete ==
    \E deleteError \in BOOLEAN :
        /\ post.pc = "delete"
        /\ post' = [post EXCEPT !.pc = "done"]
        /\ IF deleteError
           THEN /\ postResponse' = Returned(Failure(500, "Failed to leave group"))
                /\ group_members' = group_members
           ELSE /\ group_members' = deleteMember(group_members, post.sub)
                /\ postResponse' =
                      IF post.sub \notin userIdsOf(group_members)
                      THEN Returned(Failure(404,
                                        "You are not a member of this group"))
                      ELSE Returned([status |-> 200, left |-> TRUE,
                                     groupId |-> "g"])
        /\ UNCHANGED restOfPOST

POST == POST_claims \/ POST_group \/ POST_delete

Next == GET \/ POST

Spec == Init /\ [][Next]_vars

---------------------------------------------------------------------------
(* The availability query: what the response is measured against *)

Answered == response.called /\ response.value.status = 200

\* The members the handler read, and the members stored now.
Members == userIdsOf(locals.members)

StoredMembers == userIdsOf(group_members)

\* The civil weekday of the moment the handler took, 1 = Monday.
Timed == locals.now # Undefined

QueryWeekday == ((locals.now \div SecondsPerDay) % 7) + 1

\* The merged intervals of a user on the weekday of the request, from the
\* stored rows.
MemberIntervals(u) ==
    intervalsOf(
        mergeBusyIntervals(selectBusyBlocks(weekday_busy_blocks, QueryWeekday, {u})),
        u)

Containing(u) ==
    LET iv == MemberIntervals(u)
    IN  {i \in 1..Len(iv) :
            /\ iv[i].startMinutes <= locals.referenceMinutes
            /\ locals.referenceMinutes < iv[i].endMinutes}

Later(u) ==
    LET iv == MemberIntervals(u)
    IN  {i \in 1..Len(iv) : iv[i].startMinutes > locals.referenceMinutes}

EntriesOf(list, u) == {i \in 1..Len(list) : list[i].user_id = u}

\* C3: on a weekday, a member of the uploaded-calendar set is reported busy
\* exactly when a merged interval of that member has
\* startMinutes <= referenceMinutes < endMinutes; that interval is unique
\* and busy_until is its end; otherwise the member is reported free.  The
\* members are the rows the handler read, whether or not one of them has
\* left the group since.
BusyIffInsideMergedInterval ==
    (Answered /\ Timed /\ QueryWeekday \in 1..5) =>
        \A u \in Members \cap calendar_uploads :
            LET iv == MemberIntervals(u)
                containing == Containing(u)
            IN  IF containing # {}
                THEN /\ Cardinality(containing) = 1
                     /\ EntriesOf(response.value.free, u) = {}
                     /\ Cardinality(EntriesOf(response.value.busy, u)) = 1
                     /\ \A i \in EntriesOf(response.value.busy, u) :
                            \A c \in containing :
                                response.value.busy[i].busy_until
                                  = formatTime(iv[c].end_time)
                ELSE /\ EntriesOf(response.value.busy, u) = {}
                     /\ Cardinality(EntriesOf(response.value.free, u)) = 1

\* At 10:00 on a Monday with 9:00-10:30 and 10:30-13:00 stored, the member
\* is busy until 1:00.
BusyUntilEndOfJoinedBlocks ==
    /\ Answered
    /\ QueryWeekday = 1
    /\ Len(MemberIntervals("u1")) = 1
    /\ Len(selectBusyBlocks(weekday_busy_blocks, 1, {"u1"})) = 2
    /\ locals.referenceMinutes = 600 * PerMinute
    /\ \E i \in 1..Len(response.value.busy) :
           /\ response.value.busy[i].user_id = "u1"
           /\ response.value.busy[i].busy_until = <<"1", ":", "0", "0", "P", "M">>

\* C4: for every member reported free, free_until is the start of the
\* earliest merged interval of that member that starts strictly after the
\* reference minute, and null exactly when there is no such interval.
FreeUntilIsNextStart ==
    Answered =>
        \A i \in 1..Len(response.value.free) :
            LET u == response.value.free[i].user_id
                iv == MemberIntervals(u)
                later == Later(u)
            IN  IF later = {}
                THEN response.value.free[i].free_until = Null
                ELSE \E j \in later :
                        /\ \A k \in later :
                               iv[j].startMinutes <= iv[k].startMinutes
                        /\ response.value.free[i].free_until
                              = formatTime(iv[j].start_time)

\* A free member with two intervals still ahead: free until the first.
FreeUntilFirstOfTwo ==
    /\ Answered
    /\ \E i \in 1..Len(response.value.free) :
           /\ response.value.free[i].user_id = "u1"
           /\ Cardinality(Later("u1")) = 2
           /\ response.value.free[i].free_until = <<"9", ":", "0", "0", "A", "M">>

\* C5: a member outside the uploaded-calendar set is reported unknown and
\* neither free nor busy, whatever rows are stored for that member; every
\* member appears in exactly one of the three lists.  This holds of the
\* members the handler read and of the members stored when it answers and
\* afterwards, a member leaving the group in between or not.
NotUploadedIsUnknown ==
    Answered =>
        \A u \in Members \cup StoredMembers :
            /\ Cardinality(EntriesOf(response.value.free, u))
                  + Cardinality(EntriesOf(response.value.busy, u))
                  + Cardinality(EntriesOf(response.value.unknown, u)) = 1
            /\ u \notin calendar_uploads =>
                   Cardinality(EntriesOf(response.value.unknown, u)) = 1
            /\ u \in calendar_uploads => EntriesOf(response.value.unknown, u) = {}

\* A member without an upload whose stored block holds the reference
\* minute is unknown, in an answer given after the caller has left the
\* group.
UnknownDespiteBusyBlock ==
    /\ Answered
    /\ "u2" \notin calendar_uploads
    /\ Containing("u2") # {}
    /\ EntriesOf(response.value.unknown, "u2") # {}
    /\ StoredMembers = {"u2"}
    /\ Members = {"u1", "u2"}

\* C6: on Saturday and Sunday the busy-block read is not issued, and every
\* member of the uploaded-calendar set is reported free with free_until
\* null, whatever the time parameter.
WeekendReadsNoBlocks ==
    (Timed /\ QueryWeekday \in {6, 7}) =>
        /\ ~locals.blocksRead
        /\ pc = "done"
        /\ Answered
        /\ \A u \in Members \cap calendar_uploads :
               /\ EntriesOf(response.value.busy, u) = {}
               /\ EntriesOf(response.value.free, u) # {}
               /\ \A i \in EntriesOf(response.value.free, u) :
                      response.value.free[i].free_until = Null

\* A Saturday request with an accepted time parameter, rows stored and both
\* members' calendars uploaded.
WeekendAnswered ==
    /\ Answered
    /\ QueryWeekday = 6
    /\ response.value.checked_time # Null
    /\ weekday_busy_blocks # <<>>
    /\ calendar_uploads = {"u1", "u2"}
    /\ Len(response.value.free) = 2

\* C8: an authenticated request whose time parameter is supplied and does
\* not match H:MM, HH:MM or HH:MM:SS is rejected with status 400 before
\* any table is read; a request is answered from the current time only
\* when the parameter is absent.
BadTimeParamRejected ==
    /\ (request.called /\ request.value.time # Null
          /\ match(request.value.time) = NoMatch)
           => /\ pc = "done"
              /\ response.value.status \in {400, 401}
    /\ (Answered /\ response.value.checked_time = Null)
           => request.value.time = Null

=============================================================================
